---- MODULE Spec2Model ----
(***************************************************************************)
(* Model of parallel_density_compute.py: an orchestrator (main) loads a    *)
(* dataset, maps compute_density_safe over the indexed work list with a    *)
(* multiprocessing.Pool, partitions the returned records into the          *)
(* densities and errors dictionaries and pickles one artifact.             *)
(*                                                                         *)
(* Python values are tagged tuples so that the pickler can dispatch on the *)
(* type as pickle does: <<"int", n>>, <<"str", s>>, <<"NoneType">>,        *)
(* <<"ndarray", a>>, <<"dict", items>>.  A dict is its sequence of         *)
(* <<key, value>> items in insertion order, keys unique.                   *)
(***************************************************************************)
EXTENDS Integers, Sequences, FiniteSets, TLC

\* Bounds of the model.
MaxN == 3
\* The pool size; the script sets 32 (line 44), the model scales it down.
n_processes == 2

VARIABLES
    pc,           \* position of main()
    disk,         \* the QM7 dataset as stored under 'data'
    ds,           \* main: ds
    args_list,    \* main: args_list
    inqueue,      \* Pool: tasks submitted and not yet taken, FIFO
    worker,       \* Pool: one record per worker process
    value,        \* Pool.map: the result slots, by position of submission
    number_left,  \* Pool.map: results still awaited
    map_success,  \* Pool.map: no task has raised so far
    results,      \* main: results
    k,            \* main: records of results consumed by the for loop
    densities,    \* main: densities
    errors,       \* main: errors
    output_data,  \* main: output_data
    file,         \* densities.pkl as written by this run
    stdout,       \* lines printed, by main and by the workers
    calls         \* calls[i]: how often scf_density_matrix was invoked on item i

vars == <<pc, disk, ds, args_list, inqueue, worker, value, number_left,
          map_success, results, k, densities, errors, output_data, file, stdout, calls>>

----------------------------------------------------------------------------
\* Python values

PyNone == <<"NoneType">>
PyInt(n) == <<"int", n>>
PyStr(s) == <<"str", s>>
PyArr(a) == <<"ndarray", a>>
PyDict(items) == <<"dict", items>>

IsNone(v) == v[1] = "NoneType"

\* dict operations on the item sequence
DictKeys(d) == {d[j][1] : j \in 1..Len(d)}
DictHas(d, key) == \E j \in 1..Len(d) : d[j][1] = key
DictGet(d, key) == d[CHOOSE j \in 1..Len(d) : d[j][1] = key][2]
\* d[key] = val: an existing key keeps its place, a new key goes last
DictSet(d, key, val) ==
    IF DictHas(d, key)
    THEN [j \in 1..Len(d) |-> IF d[j][1] = key THEN <<key, val>> ELSE d[j]]
    ELSE Append(d, <<key, val>>)
\* list(d.keys())
DictKeyList(d) == [j \in 1..Len(d) |-> d[j][1]]

\* a pool started with one process more than n_processes
WorkersOneMore == 1..(n_processes + 1)

\* the worker processes of Pool(n_processes)
Workers == 1..n_processes
Unset == <<"unset">>

----------------------------------------------------------------------------
\* The collaborators

\* The molecules a dataset may hold, by what scf_density_matrix does on them.
Molecules == {"H2O", "CH4", "bad", "bad_nomsg", "stuck"}

basis == "sto-3g"
output_file == "densities.pkl"

\* scf_density_matrix(atoms, basis): returns a matrix, raises, or never returns.
scf_density_matrix(atoms, b) ==
    CASE atoms = "bad"       -> [kind |-> "raise", e |-> "SCF did not converge"]
      [] atoms = "bad_nomsg" -> [kind |-> "raise", e |-> ""]
      [] atoms = "stuck"     -> [kind |-> "hang"]
      [] OTHER               -> [kind |-> "return", value |-> PyArr(atoms \o "/" \o b)]

\* load_dataset('QM7', 'data') when it succeeds: the sequence on disk
load_dataset(d) == d

----------------------------------------------------------------------------
\* compute_density_safe (lines 19-31)

error_msg_of(idx, e) ==
    "Error computing density for molecule " \o ToString(idx[2]) \o ": " \o e

\* compute_density_safe without its try/except: the exception leaves the function
compute_density_unguarded(args) ==
    LET idx   == args[1]
        atoms == args[2]
        r     == scf_density_matrix(atoms, basis)
    IN  IF r.kind = "return"
        THEN [raised |-> FALSE, ret |-> <<idx, r.value, PyNone>>, out |-> <<>>]
        ELSE [raised |-> TRUE, ret |-> <<>>, out |-> <<>>]

\* compute_density_safe without line 30: the failure is returned, not printed
compute_density_quiet(args) ==
    LET idx   == args[1]
        atoms == args[2]
        r     == scf_density_matrix(atoms, basis)
    IN  IF r.kind = "return"
        THEN [raised |-> FALSE, ret |-> <<idx, r.value, PyNone>>, out |-> <<>>]
        ELSE [raised |-> FALSE, ret |-> <<idx, PyNone, PyStr(error_msg_of(idx, r.e))>>,
              out |-> <<>>]

\* For a computation that finishes: the record returned (ret), the lines
\* printed (out), and whether an exception leaves the function (raised).
compute_density_safe(args) ==
    LET idx   == args[1]
        atoms == args[2]
        r     == scf_density_matrix(atoms, basis)
    IN  IF r.kind = "return"
        THEN [raised |-> FALSE, ret |-> <<idx, r.value, PyNone>>, out |-> <<>>]
        ELSE LET error_msg == error_msg_of(idx, r.e)
             IN  [raised |-> FALSE, ret |-> <<idx, PyNone, PyStr(error_msg)>>,
                  out |-> <<error_msg>>]

\* the call returns at all
Finishes(args) == scf_density_matrix(args[2], basis).kind # "hang"

----------------------------------------------------------------------------
\* pickle.dump (line 82): the artifact as a sequence of pickle opcodes

\* as a text format does with a number: its digits
save_int_as_text(n) == << <<"BINUNICODE", ToString(n)>> >>

\* an int
save_int(n) == << <<"BININT", n>> >>
\* a str
save_str(s) == << <<"BINUNICODE", s>> >>

RECURSIVE save(_), save_items(_)
\* the opcodes that rebuild obj on the unpickler's stack
save(obj) ==
    CASE obj[1] = "NoneType" -> << <<"NONE">> >>
      [] obj[1] = "int"      -> save_int(obj[2])
      [] obj[1] = "str"      -> save_str(obj[2])
      [] obj[1] = "ndarray"  -> << <<"NDARRAY", obj[2]>> >>
      [] obj[1] = "dict"     ->
            << <<"EMPTY_DICT">> >> \o
            ( CASE Len(obj[2]) = 0 -> <<>>
                [] Len(obj[2]) = 1 -> save_items(obj[2]) \o << <<"SETITEM">> >>
                [] OTHER           -> << <<"MARK">> >> \o save_items(obj[2])
                                                      \o << <<"SETITEMS">> >> )
\* key, value, key, value, ...
save_items(items) ==
    IF items = <<>> THEN <<>>
    ELSE save(Head(items)[1]) \o save(Head(items)[2]) \o save_items(Tail(items))

\* pickle.dump(obj, f)
dump(obj) == << <<"PROTO", 4>> >> \o save(obj) \o << <<"STOP">> >>

\* pickle.load: the unpickler's stack machine
Mark == <<"mark">>

\* the topmost mark of the stack
LastMark(stack) ==
    CHOOSE m \in 1..Len(stack) :
        /\ stack[m] = Mark
        /\ \A j \in (m + 1)..Len(stack) : stack[j] # Mark

RECURSIVE set_items(_, _)
\* d[key] = value for the pairs of flat, in order
set_items(d, flat) ==
    IF Len(flat) < 2 THEN d
    ELSE set_items(DictSet(d, flat[1], flat[2]), SubSeq(flat, 3, Len(flat)))

RECURSIVE load_ops(_, _)
load_ops(ops, stack) ==
    LET op   == Head(ops)
        rest == Tail(ops)
        n    == Len(stack)
    IN  CASE op[1] = "PROTO"      -> load_ops(rest, stack)
          [] op[1] = "NONE"       -> load_ops(rest, Append(stack, PyNone))
          [] op[1] = "BININT"     -> load_ops(rest, Append(stack, PyInt(op[2])))
          [] op[1] = "BINUNICODE" -> load_ops(rest, Append(stack, PyStr(op[2])))
          [] op[1] = "NDARRAY"    -> load_ops(rest, Append(stack, PyArr(op[2])))
          [] op[1] = "EMPTY_DICT" -> load_ops(rest, Append(stack, PyDict(<<>>)))
          [] op[1] = "MARK"       -> load_ops(rest, Append(stack, Mark))
          [] op[1] = "SETITEM"    ->
                load_ops(rest, Append(SubSeq(stack, 1, n - 3),
                    PyDict(DictSet(stack[n - 2][2], stack[n - 1], stack[n]))))
          [] op[1] = "SETITEMS"   ->
                LET m == LastMark(stack)
                IN  load_ops(rest, Append(SubSeq(stack, 1, m - 2),
                        PyDict(set_items(stack[m - 1][2], SubSeq(stack, m + 1, n)))))
          [] op[1] = "STOP"       -> stack[n]

\* pickle.load(f) on the bytes of a file
load(data) == load_ops(data, <<>>)

NoFile == [exists |-> FALSE, data |-> <<>>]

----------------------------------------------------------------------------
\* main (lines 34-88)

\* [(i, atoms) for i, atoms in enumerate(ds)]
enumerate(s) == [j \in 1..Len(s) |-> <<PyInt(j - 1), s[j]>>]

\* lines 70-75 with the total taken from the successes
metadataTotalOfSuccesses(n_ds, dens, errs) ==
    PyDict(<< <<PyStr("basis"), PyStr(basis)>>,
              <<PyStr("total_molecules"), PyInt(Len(dens))>>,
              <<PyStr("successful"), PyInt(Len(dens))>>,
              <<PyStr("failed"), PyInt(Len(errs))>> >>)

\* lines 70-75
metadata(n_ds, dens, errs) ==
    PyDict(<< <<PyStr("basis"), PyStr(basis)>>,
              <<PyStr("total_molecules"), PyInt(n_ds)>>,
              <<PyStr("successful"), PyInt(Len(dens))>>,
              <<PyStr("failed"), PyInt(Len(errs))>> >>)

\* lines 67-76
make_output_data(n_ds, dens, errs) ==
    PyDict(<< <<PyStr("densities"), PyDict(dens)>>,
              <<PyStr("errors"), PyDict(errs)>>,
              <<PyStr("metadata"), metadata(n_ds, dens, errs)>> >>)

Datasets == UNION {[1..n -> Molecules] : n \in 0..MaxN}

IdleWorker == [st |-> "idle", pos |-> 0, args |-> <<>>, raised |-> FALSE, rec |-> <<>>]

Init ==
    /\ pc = "load"
    /\ disk \in Datasets
    /\ ds = <<>>
    /\ args_list = <<>>
    /\ inqueue = <<>>
    /\ worker = [w \in Workers |-> [IdleWorker EXCEPT !.st = "none"]]
    /\ value = <<>>
    /\ number_left = 0
    /\ map_success = TRUE
    /\ results = <<>>
    /\ k = 0
    /\ densities = <<>>
    /\ errors = <<>>
    /\ output_data = <<>>
    /\ file = NoFile
    /\ stdout = <<>>
    /\ calls = [i \in 0..(Len(disk) - 1) |-> 0]

\* lines 35-47: the dataset loads, the work list is built
Load ==
    /\ pc = "load"
    /\ ds' = load_dataset(disk)
    /\ args_list' = enumerate(ds')
    /\ stdout' = stdout \o <<"Loading QM7 dataset...",
                             "Loaded " \o ToString(Len(ds')) \o " molecules",
                             "Using " \o ToString(n_processes) \o " parallel processes",
                             "Computing SCF density matrices in parallel...">>
    /\ pc' = "pool"
    /\ UNCHANGED <<disk, inqueue, worker, value, number_left, map_success,
                   results, k, densities, errors, output_data, file, calls>>

\* line 36: load_dataset raises; nothing catches it
LoadFails ==
    /\ pc = "load"
    /\ stdout' = stdout \o <<"Loading QM7 dataset...">>
    /\ pc' = "crashed"
    /\ UNCHANGED <<disk, ds, args_list, inqueue, worker, value, number_left, map_success,
                   results, k, densities, errors, output_data,
                   file, calls>>

\* line 50: the pool starts its worker processes
PoolCreate ==
    /\ pc = "pool"
    /\ worker' = [w \in Workers |-> IdleWorker]
    /\ pc' = "map"
    /\ UNCHANGED <<disk, ds, args_list, inqueue, value, number_left, map_success,
                   results, k, densities, errors, output_data,
                   file, stdout, calls>>

\* line 50: multiprocessing.Pool raises; nothing catches it
PoolCreateFails ==
    /\ pc = "pool"
    /\ pc' = "crashed"
    /\ UNCHANGED <<disk, ds, args_list, inqueue, worker, value, number_left, map_success,
                   results, k, densities, errors, output_data,
                   file, stdout, calls>>

\* line 51: pool.map submits the whole list, then blocks
MapSubmit ==
    /\ pc = "map"
    /\ inqueue' = [j \in 1..Len(args_list) |-> <<j, args_list[j]>>]
    /\ value' = [j \in 1..Len(args_list) |-> Unset]
    /\ number_left' = Len(args_list)
    /\ map_success' = TRUE
    /\ pc' = "collect"
    /\ UNCHANGED <<disk, ds, args_list, worker, results, k, densities, errors,
                   output_data, file, stdout, calls>>

\* a worker process takes the next task from the queue
WorkerTake(w) ==
    /\ worker[w].st = "idle"
    /\ inqueue # <<>>
    /\ worker' = [worker EXCEPT ![w] = [IdleWorker EXCEPT !.st = "computing",
                                                          !.pos = Head(inqueue)[1],
                                                          !.args = Head(inqueue)[2]]]
    /\ inqueue' = Tail(inqueue)
    /\ UNCHANGED <<pc, disk, ds, args_list, value, number_left, map_success,
                   results, k, densities, errors, output_data, file, stdout, calls>>

\* every call sees the item the list ended with, as a late-bound variable
\* shared by the calls would have it
WorkerInputLateBound(w) == args_list[Len(args_list)]

\* the argument worker w calls the function on: its own copy of the task's item
WorkerInput(w) == worker[w].args

\* lines 19-31 in worker w: the call of compute_density_safe runs to its end
WorkerCompute(w) ==
    /\ worker[w].st = "computing"
    /\ Finishes(WorkerInput(w))
    /\ LET r == compute_density_safe(WorkerInput(w))
           i == worker[w].pos - 1
       IN  /\ worker' = [worker EXCEPT ![w].st = "returning",
                                       ![w].raised = r.raised,
                                       ![w].rec = r.ret]
           /\ stdout' = stdout \o r.out
           /\ calls' = [calls EXCEPT ![i] = @ + 1]
    /\ UNCHANGED <<pc, disk, ds, args_list, inqueue, value, number_left, map_success,
                   results, k, densities, errors, output_data, file>>

\* a pool that submits a failed item again
TasksAfterRetry(q, pos, args, rec) ==
    IF IsNone(rec[3]) THEN q ELSE Append(q, <<pos, args>>)

\* the queue of tasks once the function has ended for the task at pos:
\* the pool hands a task out once
TasksAfter(q, pos, args, rec) == q

\* as imap_unordered would: results in the order they come back
StoreResultUnordered(slots, pos, rec) ==
    LET free == CHOOSE j \in 1..Len(slots) :
                    /\ slots[j] = Unset
                    /\ \A h \in 1..(j - 1) : slots[h] # Unset
    IN  [slots EXCEPT ![free] = rec]

\* pool.map keeps a result in the slot of the task's position of submission
StoreResult(slots, pos, rec) == [slots EXCEPT ![pos] = rec]

\* the worker sends back what the function gave; the pool stores a record in
\* its slot, and notes an exception, which pool.map raises in main once
\* every task is accounted for
WorkerReturn(w) ==
    /\ worker[w].st = "returning"
    /\ IF worker[w].raised
       THEN /\ map_success' = FALSE
            /\ value' = value
       ELSE /\ map_success' = map_success
            /\ value' = IF map_success
                        THEN StoreResult(value, worker[w].pos, worker[w].rec)
                        ELSE value
    /\ number_left' = number_left - 1
    /\ inqueue' = TasksAfter(inqueue, worker[w].pos, worker[w].args, worker[w].rec)
    /\ worker' = [worker EXCEPT ![w] = IdleWorker]
    /\ UNCHANGED <<pc, disk, ds, args_list, results, k, densities, errors,
                   output_data, file, stdout, calls>>

\* pool.map has every result
MapReady == number_left = 0

\* a collection that gives up waiting and returns the records it has
MapReturnOnTimeout ==
    /\ pc = "collect"
    /\ map_success
    /\ results' = SelectSeq(value, LAMBDA r : r # Unset)
    /\ worker' = [w \in Workers |-> [IdleWorker EXCEPT !.st = "none"]]
    /\ pc' = "partition"
    /\ UNCHANGED <<disk, ds, args_list, inqueue, value, number_left,
                   map_success, k, densities, errors, output_data, file,
                   stdout, calls>>

\* lines 50-51: pool.map returns the list, in order of submission; the
\* with-block ends the pool
MapReturn ==
    /\ pc = "collect"
    /\ MapReady
    /\ map_success
    /\ results' = value
    /\ worker' = [w \in Workers |-> [IdleWorker EXCEPT !.st = "none"]]
    /\ pc' = "partition"
    /\ UNCHANGED <<disk, ds, args_list, inqueue, value, number_left, map_success,
                   k, densities, errors, output_data, file,
                   stdout, calls>>

\* pool.map raises and a handler dumps the records that did come back
MapRaisesSavingPartial ==
    /\ pc = "collect"
    /\ MapReady
    /\ worker' = [w \in Workers |-> [IdleWorker EXCEPT !.st = "none"]]
    /\ file' = [exists |-> TRUE, data |-> dump(PyDict(<<>>))]
    /\ pc' = "crashed"
    /\ UNCHANGED <<disk, ds, args_list, inqueue, value, number_left, map_success,
                   results, k, densities, errors, output_data, stdout, calls>>

\* lines 50-51: pool.map raises once every task is accounted for, because a
\* task raised or because the pool could not bring a record back; nothing
\* catches it
MapRaises ==
    /\ pc = "collect"
    /\ MapReady
    /\ worker' = [w \in Workers |-> [IdleWorker EXCEPT !.st = "none"]]
    /\ pc' = "crashed"
    /\ UNCHANGED <<disk, ds, args_list, inqueue, value, number_left, map_success,
                   results, k, densities, errors, output_data,
                   file, stdout, calls>>

\* lines 58-61 with the else lost: the matrix is stored for every record
PartitionRecordNoElse(dens, errs, rec) ==
    LET idx == rec[1]
        density_matrix == rec[2]
        error_msg == rec[3]
    IN  <<DictSet(dens, idx, density_matrix),
          IF IsNone(error_msg) THEN errs ELSE DictSet(errs, idx, error_msg)>>

\* lines 58-61: one record goes to densities or to errors
PartitionRecord(dens, errs, rec) ==
    LET idx == rec[1]
        density_matrix == rec[2]
        error_msg == rec[3]
    IN  IF IsNone(error_msg)
        THEN <<DictSet(dens, idx, density_matrix), errs>>
        ELSE <<dens, DictSet(errs, idx, error_msg)>>

\* the for loop with the dump inside it: the file is rewritten at every record
PartitionStepSaving ==
    /\ pc = "partition"
    /\ k < Len(results)
    /\ LET p == PartitionRecord(densities, errors, results[k + 1])
       IN  /\ densities' = p[1]
           /\ errors' = p[2]
           /\ file' = [exists |-> TRUE,
                       data |-> dump(make_output_data(Len(ds), p[1], p[2]))]
    /\ k' = k + 1
    /\ UNCHANGED <<pc, disk, ds, args_list, inqueue, worker, value, number_left,
                   map_success, results, output_data, stdout, calls>>

\* lines 57-61: one iteration of the for loop
PartitionStep ==
    /\ pc = "partition"
    /\ k < Len(results)
    /\ LET p == PartitionRecord(densities, errors, results[k + 1])
       IN  /\ densities' = p[1]
           /\ errors' = p[2]
    /\ k' = k + 1
    /\ UNCHANGED <<pc, disk, ds, args_list, inqueue, worker, value, number_left, map_success,
                   results, output_data, file, stdout, calls>>

\* lines 63-79: the loop is over; the counts are printed, output_data is built
Report ==
    /\ pc = "partition"
    /\ k = Len(results)
    /\ output_data' = make_output_data(Len(ds), densities, errors)
    /\ stdout' = stdout \o
         <<"Successfully computed " \o ToString(Len(densities)) \o " density matrices",
           "Failed to compute " \o ToString(Len(errors)) \o " density matrices",
           "Saving results to " \o output_file \o "...">>
    /\ pc' = "save"
    /\ UNCHANGED <<disk, ds, args_list, inqueue, worker, value, number_left, map_success,
                   results, k, densities, errors, file, calls>>

\* "[0, 2]": str() of a list of ints
RECURSIVE join_ints(_)
join_ints(s) ==
    IF s = <<>> THEN ""
    ELSE IF Len(s) = 1 THEN ToString(s[1][2])
    ELSE ToString(s[1][2]) \o ", " \o join_ints(Tail(s))

str_list(s) == "[" \o join_ints(s) \o "]"

\* a save that is skipped when no computation succeeded
SaveIfAnySuccess ==
    /\ pc = "save"
    /\ file' = IF densities # <<>>
               THEN [exists |-> TRUE, data |-> dump(output_data)]
               ELSE file
    /\ pc' = "saved"
    /\ UNCHANGED <<disk, ds, args_list, inqueue, worker, value, number_left, map_success,
                   results, k, densities, errors, output_data,
                   stdout, calls>>

\* lines 81-82: the file is opened for writing, output_data is dumped into it
Save ==
    /\ pc = "save"
    /\ file' = [exists |-> TRUE, data |-> dump(output_data)]
    /\ pc' = "saved"
    /\ UNCHANGED <<disk, ds, args_list, inqueue, worker, value, number_left, map_success,
                   results, k, densities, errors, output_data,
                   stdout, calls>>

\* lines 84-88: the summary lines; main returns
Finish ==
    /\ pc = "saved"
    /\ stdout' = stdout \o
         <<"Done! Results saved to " \o output_file,
           "Summary: " \o ToString(Len(densities)) \o "/" \o ToString(Len(ds))
                \o " successful computations">> \o
         (IF errors # <<>>
          THEN <<"Errors encountered for indices: " \o str_list(DictKeyList(errors))>>
          ELSE <<>>)
    /\ pc' = "done"
    /\ UNCHANGED <<disk, ds, args_list, inqueue, worker, value, number_left, map_success,
                   results, k, densities, errors, output_data,
                   file, calls>>

Next ==
    \/ Load
    \/ LoadFails
    \/ PoolCreate
    \/ PoolCreateFails
    \/ MapSubmit
    \/ \E w \in Workers : WorkerTake(w)
    \/ \E w \in Workers : WorkerCompute(w)
    \/ \E w \in Workers : WorkerReturn(w)
    \/ MapReturn
    \/ MapRaises
    \/ PartitionStep
    \/ Report
    \/ Save
    \/ Finish

Spec == Init /\ [][Next]_vars

\* The run under the scheduling the operating system gives: main and every
\* worker process keep running while they can take a step.  The failures of
\* the environment (LoadFails, PoolCreateFails, MapRaises) may happen and are
\* under no obligation to.
Fairness ==
    /\ WF_vars(Load)
    /\ WF_vars(PoolCreate)
    /\ WF_vars(MapSubmit)
    /\ \A w \in Workers : WF_vars(WorkerTake(w))
    /\ \A w \in Workers : WF_vars(WorkerCompute(w))
    /\ \A w \in Workers : WF_vars(WorkerReturn(w))
    /\ WF_vars(MapReturn)
    /\ WF_vars(PartitionStep)
    /\ WF_vars(Report)
    /\ WF_vars(Save)
    /\ WF_vars(Finish)

FairSpec == Spec /\ Fairness

----------------------------------------------------------------------------
\* What the claims speak of

N == Len(ds)
Indices == {PyInt(i) : i \in 0..(N - 1)}

\* what scf_density_matrix does on item i of the loaded dataset
Raises(i) == ds[i + 1] \in {"bad", "bad_nomsg"}
Returns(i) == ds[i + 1] \in {"H2O", "CH4"}

\* the for loop of lines 57-61 is over
PartitionDone ==
    \/ pc = "partition" /\ k = Len(results)
    \/ pc \in {"save", "saved", "done"}

\* line j of stdout is the message of a failure of item i
IsFailureLine(j, i) ==
    \E e \in {"SCF did not converge", ""} :
        stdout[j] = "Error computing density for molecule " \o ToString(i) \o ": " \o e

\* C1: once the records are partitioned, the keys of densities and the keys
\* of errors are disjoint and together are exactly the indices 0 .. N-1.
C1_KeysPartitionIndices ==
    PartitionDone =>
        /\ DictKeys(densities) \cap DictKeys(errors) = {}
        /\ DictKeys(densities) \cup DictKeys(errors) = Indices
        /\ Len(densities) + Len(errors) = N

C1_Witness ==
    /\ PartitionDone
    /\ N = 3
    /\ Len(densities) = 2
    /\ Len(errors) = 1

\* C2: an exception of the computation of item i never leaves the wrapper:
\* the wrapper returns (i, None, message) with a non-empty message, the pool
\* sees no task raise, and after the partition i is in errors with that
\* message and not in densities, while every item whose computation
\* returned is in densities.
C2_FailureIsCaughtAndRecorded ==
    /\ map_success
    /\ \A w \in Workers :
          (worker[w].st = "returning" /\ Raises(worker[w].pos - 1)) =>
              /\ ~worker[w].raised
              /\ Len(worker[w].rec) = 3
              /\ worker[w].rec[1] = PyInt(worker[w].pos - 1)
              /\ worker[w].rec[2] = PyNone
              /\ worker[w].rec[3][1] = "str"
              /\ worker[w].rec[3][2] # ""
    /\ PartitionDone =>
          \A i \in 0..(N - 1) :
              /\ Raises(i) => /\ DictHas(errors, PyInt(i))
                              /\ DictGet(errors, PyInt(i))[2] # ""
                              /\ ~DictHas(densities, PyInt(i))
              /\ Returns(i) => /\ DictHas(densities, PyInt(i))
                               /\ ~DictHas(errors, PyInt(i))

C2_Witness ==
    /\ pc = "done"
    /\ ds = <<"H2O", "bad_nomsg", "CH4">>
    /\ DictHas(errors, PyInt(1))
    /\ DictHas(densities, PyInt(0))
    /\ DictHas(densities, PyInt(2))

\* the maps the outcomes of the items determine, in order of index
RECURSIVE ExpectedDensities(_, _), ExpectedErrors(_, _)
ExpectedDensities(items, i) ==
    IF items = <<>> THEN <<>>
    ELSE (IF Head(items) \in {"H2O", "CH4"}
          THEN << <<PyInt(i), PyArr(Head(items) \o "/sto-3g")>> >>
          ELSE <<>>) \o ExpectedDensities(Tail(items), i + 1)
ExpectedErrors(items, i) ==
    IF items = <<>> THEN <<>>
    ELSE (CASE Head(items) = "bad" ->
                 << <<PyInt(i), PyStr("Error computing density for molecule "
                        \o ToString(i) \o ": SCF did not converge")>> >>
            [] Head(items) = "bad_nomsg" ->
                 << <<PyInt(i), PyStr("Error computing density for molecule "
                        \o ToString(i) \o ": ")>> >>
            [] OTHER -> <<>>) \o ExpectedErrors(Tail(items), i + 1)

\* C3: whatever the order in which the workers finish, the partition leaves
\* the maps the items' outcomes determine, each outcome under its own index
\* and the entries in order of index; [H2O, bad, CH4] gives
\* {0: H2O's matrix, 2: CH4's matrix} and {1: message}.
C3_MapsIndependentOfCompletionOrder ==
    PartitionDone =>
        /\ densities = ExpectedDensities(ds, 0)
        /\ errors = ExpectedErrors(ds, 0)
        /\ ds = <<"H2O", "bad", "CH4">> =>
              /\ densities = << <<PyInt(0), PyArr("H2O/sto-3g")>>,
                                <<PyInt(2), PyArr("CH4/sto-3g")>> >>
              /\ errors = << <<PyInt(1),
                    PyStr("Error computing density for molecule 1: SCF did not converge")>> >>

\* the partition is over in a run where item 2 failed before item 0 did
C3_Witness ==
    /\ PartitionDone
    /\ ds = <<"bad", "H2O", "bad_nomsg">>
    /\ \E j1, j2 \in 1..Len(stdout) :
          /\ j1 < j2
          /\ IsFailureLine(j1, 2)
          /\ IsFailureLine(j2, 0)

\* the artifact read back from the file
Artifact == load(file.data)
ArtifactField(name) == DictGet(Artifact[2], PyStr(name))
MetadataField(name) == DictGet(ArtifactField("metadata")[2], PyStr(name))[2]

\* C4: in a written artifact, successful + failed = total_molecules = N,
\* successful and failed being the sizes of the two maps.
C4_MetadataCounts ==
    file.exists =>
        /\ MetadataField("successful") + MetadataField("failed")
              = MetadataField("total_molecules")
        /\ MetadataField("total_molecules") = Len(disk)
        /\ MetadataField("successful") = Len(ArtifactField("densities")[2])
        /\ MetadataField("failed") = Len(ArtifactField("errors")[2])

C4_Witness ==
    /\ file.exists
    /\ Len(disk) = 3
    /\ MetadataField("successful") = 2
    /\ MetadataField("failed") = 1

\* every item of the dataset has its outcome in main: pool.map returned N
\* records and the loop put each of them in one of the maps
AllOutcomesCollected ==
    /\ number_left = 0
    /\ Len(results) = Len(disk)
    /\ k = Len(results)
    /\ \A i \in 0..(Len(disk) - 1) :
          DictHas(densities, PyInt(i)) \/ DictHas(errors, PyInt(i))

\* C5: after an infrastructure failure (load_dataset, Pool or pool.map
\* raises) the run is over, nothing more happens in it, and it has written
\* no file and built no output_data.
C5_InfrastructureFailureWritesNothing ==
    pc = "crashed" =>
        /\ ~file.exists
        /\ file.data = <<>>
        /\ output_data = <<>>
        /\ ~ENABLED Next

\* pool.map raised although every record of three items had come back
C5_Witness ==
    /\ pc = "crashed"
    /\ Len(value) = 3
    /\ \A j \in 1..3 : value[j] # Unset

\* C6: the file is written at most once, and only when the outcome of every
\* item has been collected: a file exists only in states where all outcomes
\* are in the maps, it appears in the one step from "save", in full, and
\* never changes afterwards.
C6_WrittenOnceAfterAllOutcomes ==
    /\ [](file.exists => AllOutcomesCollected)
    /\ [][file' # file =>
            /\ pc = "save" /\ pc' = "saved"
            /\ ~file.exists /\ file'.exists
            /\ file'.data = dump(output_data)]_vars

C6_Witness ==
    /\ pc = "done"
    /\ file.exists
    /\ Len(disk) = 3
    /\ Len(errors) = 2

\* C7: reading the file back gives the success map, the error map and the
\* metadata (basis, total_molecules, successful, failed) main holds.
C7_RoundTrip ==
    file.exists =>
        /\ Artifact = output_data
        /\ ArtifactField("densities") = PyDict(densities)
        /\ ArtifactField("errors") = PyDict(errors)
        /\ ArtifactField("metadata") =
              PyDict(<< <<PyStr("basis"), PyStr("sto-3g")>>,
                        <<PyStr("total_molecules"), PyInt(Len(ds))>>,
                        <<PyStr("successful"), PyInt(Len(densities))>>,
                        <<PyStr("failed"), PyInt(Len(errors))>> >>)

\* a file whose maps have two entries, one entry (and, for N < 3, none)
C7_Witness ==
    /\ file.exists
    /\ Len(densities) = 2
    /\ Len(errors) = 1
    /\ Len(file.data) > 10

\* every computation of the dataset finishes, by returning or by raising
AllFinish == \A j \in 1..Len(disk) : disk[j] # "stuck"

\* C8 as claimed: if every computation finishes and the workers are scheduled
\* fairly, the run writes the artifact and ends; if some computation never
\* finishes, main never leaves the collection and the artifact is never written.
C8_AsClaimed ==
    /\ AllFinish => <>(pc = "done" /\ file.exists)
    /\ [][(pc = "collect" /\ ~AllFinish) => pc' = "collect"]_vars
    /\ [](~AllFinish => ~file.exists)

\* C8, amended: pool.map submits the whole list in one step and main waits
\* for every item.  If every computation finishes, the processes are
\* scheduled fairly and no infrastructure failure occurs, the run writes the
\* artifact and ends; if some computation never finishes, main never leaves
\* the collection and the artifact is never written.
C8_BlocksUntilAllComplete ==
    /\ [][pc = "map" /\ pc' # "map" =>
            /\ pc' = "collect"
            /\ Len(inqueue') = N
            /\ \A j \in 1..N : inqueue'[j] = <<j, <<PyInt(j - 1), ds[j]>> >>]_vars
    /\ (AllFinish /\ [](pc # "crashed")) => <>(pc = "done" /\ file.exists)
    /\ [][(pc = "collect" /\ ~AllFinish) => pc' = "collect"]_vars
    /\ [](~AllFinish => ~file.exists)

\* two of three items are back and main waits on the computation that hangs
C8_Witness ==
    /\ pc = "collect"
    /\ N = 3
    /\ number_left = 1
    /\ \E w \in Workers : worker[w].st = "computing" /\ worker[w].args[2] = "stuck"

\* where the task submitted at position j is
InQueue(j) == Cardinality({q \in 1..Len(inqueue) : inqueue[q][1] = j})
AtWorker(j) ==
    Cardinality({w \in Workers : /\ worker[w].st \in {"computing", "returning"}
                                 /\ worker[w].pos = j})
Stored(j) == IF value[j] # Unset THEN 1 ELSE 0
\* the function has run to its end for the task at position j
Computed(j) ==
    \/ value[j] # Unset
    \/ \E w \in Workers : worker[w].st = "returning" /\ worker[w].pos = j

\* C9: no retry.  scf_density_matrix is invoked at most once per item, a
\* submitted task is in exactly one place (the queue, one worker, its result
\* slot) and is never queued again once computed, every item has been
\* computed exactly once when the partition is over, and an item that
\* failed is a failure in the maps and in the written artifact.
C9_ComputedOnceNoRetry ==
    /\ \A i \in DOMAIN calls : calls[i] <= 1
    /\ pc = "collect" =>
          \A j \in 1..Len(value) :
              /\ InQueue(j) + AtWorker(j) + Stored(j) = 1
              /\ calls[j - 1] = (IF Computed(j) THEN 1 ELSE 0)
    /\ PartitionDone =>
          \A i \in 0..(N - 1) :
              /\ calls[i] = 1
              /\ Raises(i) => DictHas(errors, PyInt(i)) /\ ~DictHas(densities, PyInt(i))
    /\ file.exists =>
          \A i \in 0..(N - 1) :
              Raises(i) => /\ DictHas(ArtifactField("errors")[2], PyInt(i))
                           /\ ~DictHas(ArtifactField("densities")[2], PyInt(i))

\* the run is over, all three items failed, each computed once
C9_Witness ==
    /\ pc = "done"
    /\ N = 3
    /\ Len(errors) = 3
    /\ \A i \in 0..2 : calls[i] = 1

\* the record of item i, from its index, its own payload and the basis alone
OutcomeOf(i, atoms) ==
    CASE atoms = "bad" ->
           <<PyInt(i), PyNone, PyStr("Error computing density for molecule "
                \o ToString(i) \o ": SCF did not converge")>>
      [] atoms = "bad_nomsg" ->
           <<PyInt(i), PyNone, PyStr("Error computing density for molecule "
                \o ToString(i) \o ": ")>>
      [] OTHER -> <<PyInt(i), PyArr(atoms \o "/" \o "sto-3g"), PyNone>>

\* C10: the outcome recorded for item i is a function of i, of i's own
\* payload and of the basis, wherever the record is (in a worker, in the
\* pool's slots, in results, in the maps) and whatever the other items and
\* the schedule are; so two runs that differ in the payload of item j alone
\* record the same outcome for every i # j.  Each worker computes on its own
\* copy of its own item.
C10_OutcomeDependsOnOwnItemOnly ==
    /\ \A w \in Workers :
          worker[w].st \in {"computing", "returning"} =>
              worker[w].args = <<PyInt(worker[w].pos - 1), disk[worker[w].pos]>>
    /\ \A w \in Workers :
          worker[w].st = "returning" =>
              worker[w].rec = OutcomeOf(worker[w].pos - 1, disk[worker[w].pos])
    /\ \A j \in 1..Len(value) :
          value[j] # Unset => value[j] = OutcomeOf(j - 1, disk[j])
    /\ \A j \in 1..Len(results) : results[j] = OutcomeOf(j - 1, disk[j])
    /\ \A e \in 1..Len(densities) :
          LET i == densities[e][1][2]
          IN  <<PyInt(i), densities[e][2], PyNone>> = OutcomeOf(i, disk[i + 1])
    /\ \A e \in 1..Len(errors) :
          LET i == errors[e][1][2]
          IN  <<PyInt(i), PyNone, errors[e][2]>> = OutcomeOf(i, disk[i + 1])

\* two workers hold the records of two different items at once, a failure
\* and a success, while a third item's record is already stored
C10_Witness ==
    /\ pc = "collect"
    /\ N = 3
    /\ number_left = 2
    /\ \E v, w \in Workers :
          /\ worker[v].st = "returning" /\ worker[w].st = "returning"
          /\ IsNone(worker[v].rec[3])
          /\ ~IsNone(worker[w].rec[3])

\* the worker processes that run
LiveWorkers == {w \in DOMAIN worker : worker[w].st # "none"}
\* the items a worker has taken from the queue and whose record is not back
InProgress == {j \in 1..Len(value) : InQueue(j) = 0 /\ value[j] = Unset}
\* the items whose computation runs
Computing == {j \in 1..Len(value) :
                 \E w \in DOMAIN worker : worker[w].st = "computing" /\ worker[w].pos = j}

LinesOf(msg) == {j \in 1..Len(stdout) : stdout[j] = msg}
\* the lines a worker printed
WorkerLines == {j \in 1..Len(stdout) : \E i \in 0..(Len(disk) - 1) : IsFailureLine(j, i)}
\* the lines of main's summary of the outcomes (lines 63, 64, 85, 88)
SummaryLines ==
    {j \in 1..Len(stdout) :
        \/ stdout[j] = "Successfully computed " \o ToString(Len(densities))
                            \o " density matrices"
        \/ stdout[j] = "Failed to compute " \o ToString(Len(errors)) \o " density matrices"
        \/ stdout[j] = "Summary: " \o ToString(Len(densities)) \o "/"
                            \o ToString(Len(ds)) \o " successful computations"
        \/ stdout[j] = "Errors encountered for indices: " \o str_list(DictKeyList(errors))}
\* a failure record
IsFailure(rec) == rec # Unset /\ ~IsNone(rec[3])

\* C12: a failure is printed when it occurs.  Wherever a failure record is
\* (in the worker that is about to return it, in the pool's slots, in
\* results, in errors) its message is already a line of stdout, the very
\* string of the record, printed once; so when pool.map has returned every
\* failing item has its line, and all these lines come before the lines of
\* main's summary.
C12_FailurePrintedBeforeReturned ==
    /\ \A w \in Workers :
          (worker[w].st = "returning" /\ IsFailure(worker[w].rec)) =>
              Cardinality(LinesOf(worker[w].rec[3][2])) = 1
    /\ \A j \in 1..Len(value) :
          IsFailure(value[j]) => Cardinality(LinesOf(value[j][3][2])) = 1
    /\ \A j \in 1..Len(results) :
          IsFailure(results[j]) => Cardinality(LinesOf(results[j][3][2])) = 1
    /\ \A e \in 1..Len(errors) : Cardinality(LinesOf(errors[e][2][2])) = 1
    /\ pc \in {"partition", "save", "saved", "done"} =>
          \A i \in 0..(N - 1) :
              Raises(i) => \E j \in 1..Len(stdout) : IsFailureLine(j, i)
    /\ \A a \in SummaryLines : \A b \in WorkerLines : b < a
    /\ pc = "done" =>
          /\ Cardinality(WorkerLines) = Len(errors)
          /\ SummaryLines # {}

\* the run is over: the two failures were printed, then the summary with
\* the list of the failed indices as the last line
C12_Witness ==
    /\ pc = "done"
    /\ ds = <<"bad", "CH4", "bad_nomsg">>
    /\ stdout[Len(stdout)] = "Errors encountered for indices: [0, 2]"
    /\ Cardinality(WorkerLines) = 2

\* the items of the dataset whose computation raises
Failing == {j \in 1..Len(disk) : disk[j] \in {"bad", "bad_nomsg"}}

\* main returned and the file holds the outcome of every item
CompletedWithArtifact ==
    /\ pc = "done"
    /\ file.exists
    /\ Len(ArtifactField("errors")[2]) = Cardinality(Failing)
    /\ Len(ArtifactField("densities")[2]) = Len(disk) - Cardinality(Failing)
    /\ MetadataField("total_molecules") = Len(disk)
    /\ MetadataField("successful") = Len(disk) - Cardinality(Failing)
    /\ MetadataField("failed") = Cardinality(Failing)

\* C13: however many items fail, none to all N of them, N = 0 included, a
\* run in which every computation finishes and no infrastructure failure
\* occurs writes the artifact, with as many failures as items that raise,
\* and returns normally; main returns only with the artifact written, and
\* until then a step is always possible.
C13_FailuresNeverPreventArtifact ==
    /\ (AllFinish /\ [](pc # "crashed")) => <>CompletedWithArtifact
    /\ [](pc = "done" => CompletedWithArtifact)
    /\ []((AllFinish /\ pc \notin {"done", "crashed"}) => ENABLED Next)

\* the run is over and every one of the three items failed: the success map
\* of the artifact is empty
C13_Witness ==
    /\ CompletedWithArtifact
    /\ Len(disk) = 3
    /\ Cardinality(Failing) = 3
    /\ ArtifactField("densities") = PyDict(<<>>)
    /\ MetadataField("successful") = 0

====
